---- MODULE Spec2Model ----
(***************************************************************************)
(* Model of custom_components/dyson_local/__init__.py: the config-entry    *)
(* lifecycle (async_setup_entry / setup_entry / async_unload_entry), the   *)
(* platform selector (_async_get_platform) and the entity message bridge   *)
(* (DysonEntity).                                                          *)
(*                                                                         *)
(* Execution contexts.  Code that runs on the Home Assistant event loop is *)
(* atomic between two awaits, so every coroutine segment is one action.    *)
(* Code that runs on an executor thread or on the discovery thread         *)
(* (setup_entry, register_device, disconnect) interleaves with the loop at *)
(* statement granularity: connect, the store into hass.data and the        *)
(* marshalled forwarding coroutine are separate actions.                   *)
(*                                                                         *)
(* Environment.  The host platform calls async_setup_entry only on an      *)
(* entry that is not loaded (or waiting for a retry) and async_unload_entry*)
(* only on a loaded entry; the device library decides whether connect      *)
(* succeeds, whether a registered device is already known to discovery and *)
(* when an announcement arrives; the platforms decide whether their unload *)
(* succeeds.  All of these are nondeterministic choices.                   *)
(***************************************************************************)
EXTENDS Integers, Sequences, FiniteSets, TLC

\* ------------------------------------------------------------------ bounds
\* Number of Device Handles alive at the same time (one is constructed per
\* call of async_setup_entry that gets past the factory, and released when
\* nothing refers to it any more).
MaxHandles == 2
\* Number of Entity Bridges, and the number of messages delivered to each.
NumBridges == 2
MaxMsgs == 3

\* The entry_id of the config entries the host platform holds.
Entries == {1, 2}
Handles == 1..MaxHandles
Bridges == 1..NumBridges

\* ------------------------------------------------------- program constants
\* libdyson's device-type discriminators; "N223" is the 360 Eye robot vacuum.
DEVICE_TYPE_360_EYE == "N223"
DeviceTypes == {"N223", "475", "469", "438", "520", "455"}
\* The device types the modelled config entries are created with.
EntryTypes == {"N223", "475"}
\* libdyson's MessageType enumeration.
MessageTypes == {"STATE", "ENVIRONMENTAL"}
\* _MESSAGE_TYPE = None
NoFilter == "None"

VARIABLES
    devices,    \* hass.data[DOMAIN][DATA_DEVICES]: a set of <<entry_id, handle>> items
    discovery,  \* hass.data[DOMAIN][DATA_DISCOVERY]: 0 is None, k > 0 the k-th DysonDiscovery
    startCalls, \* number of discovery.start_discovery calls
    stopHooks,  \* number of EVENT_HOMEASSISTANT_STOP listeners registered
    registered, \* handles whose (device, setup_entry) pair is pending in the Discovery Service
    handle,     \* per Device Handle: the closure of one async_setup_entry call
    entry,      \* per config entry: host-platform state and coroutine position
    bridge      \* per Entity Bridge: DysonEntity instance state

vars == <<devices, discovery, startCalls, stopHooks, registered, handle, entry, bridge>>

lifecycleVars == <<devices, discovery, startCalls, stopHooks, registered, handle, entry>>
bridgeVars == <<bridge>>

\* ----------------------------------------------------------------- helpers
\* dict operations on hass.data[DOMAIN][DATA_DEVICES]
DictHas(d, k) == \E p \in d : p[1] = k
DictGet(d, k) == (CHOOSE p \in d : p[1] = k)[2]
DictKeys(d) == {p[1] : p \in d}

\* Mutant of DictSet: every entry stored under one shared key.
DictSetSharedKey(d, k, v) == {p \in d : p[1] # 1} \cup {<<1, v>>}

\* d[k] = v
DictSet(d, k, v) == {p \in d : p[1] # k} \cup {<<k, v>>}

\* d.pop(k)
DictPop(d, k) == {p \in d : p[1] # k}

\* Mutant of All: any(results).
AnyResult(results) == \E i \in 1..Len(results) : results[i]

\* all(results)
All(results) == \A i \in 1..Len(results) : results[i]

\* Mutant of GetPlatform: the isinstance test dropped.
GetPlatformFanOnly(t) == <<"fan", "sensor">>

\* isinstance(device, Dyson360Eye): get_device builds a Dyson360Eye exactly
\* for the 360 Eye device type.
IsDyson360Eye(t) == t = DEVICE_TYPE_360_EYE

\* _async_get_platform(device)
GetPlatform(t) ==
    IF IsDyson360Eye(t)
    THEN <<"binary_sensor", "sensor", "vacuum">>
    ELSE <<"fan", "sensor">>

NoHandle == 0

\* thread is the thread running the handle's job or callback; calls holds
\* the blocking calls made for the handle, each with the thread it ran on.
InitHandle ==
    [entry |-> 0, type |-> "", pc |-> "free", mode |-> "none", thread |-> "none",
     connects |-> 0, connected |-> FALSE, disconnects |-> 0, calls |-> {},
     forwarded |-> <<>>]

\* Mutant of ExecutorJob: the blocking function is called in the coroutine itself.
CalledInCoroutine == "loop"

\* hass.async_add_executor_job(f): f runs on a thread of the executor pool.
ExecutorJob == "executor"

\* Mutant of DiscoveryMissing: the `is None` test dropped.
DiscoveryAlwaysMissing == TRUE

\* `if discovery is None`
DiscoveryMissing == discovery = 0

\* The event loop is free to run callbacks and coroutines: no setup_entry
\* running on the loop's own thread is blocked in .result().
LoopFree == \A h \in Handles : ~(handle[h].thread = "loop" /\ handle[h].pc = "wait_forward")

\* Positions at which setup_entry has returned or raised.
Terminal == {"done", "failed", "not_ready"}

\* Lifetime of the `device` object: it is released once its setup_entry has
\* ended and neither hass.data, nor a pending registration, nor the latest
\* operation on its entry refers to it.  hs, es, ds are the handles, the
\* entries and the device dict to look at.
Collect(hs, es, ds) ==
    [h \in Handles |->
        IF /\ hs[h].pc \in Terminal
           /\ \A p \in ds : p[2] # h
           /\ \A e \in Entries : es[e].cur # h
        THEN InitHandle
        ELSE hs[h]]

\* The handles left when entry e starts a new operation.
Sweep(e) == Collect(handle, [entry EXCEPT ![e].cur = NoHandle], devices)

FreeHandle(hs) == {h \in Handles : hs[h].pc = "free"}
NewHandle(hs) == CHOOSE h \in FreeHandle(hs) : \A g \in FreeHandle(hs) : h <= g

InitEntry ==
    [state |-> "not_loaded", pc |-> "idle", cur |-> NoHandle, result |-> "none",
     platforms |-> <<>>, unloads |-> <<>>]

InitBridge ==
    [made |-> FALSE, added |-> FALSE, filter |-> NoFilter, listeners |-> 0,
     received |-> [m \in MessageTypes |-> 0], refreshes |-> 0]

\* async_setup: hass.data[DOMAIN] = {DATA_DEVICES: {}, DATA_DISCOVERY: None}
Init ==
    /\ devices = {}
    /\ discovery = 0
    /\ startCalls = 0
    /\ stopHooks = 0
    /\ registered = {}
    /\ handle = [h \in Handles |-> InitHandle]
    /\ entry = [e \in Entries |-> InitEntry]
    /\ bridge = [b \in Bridges |-> InitBridge]

\* ------------------------------------------------- Entry Lifecycle Controller
Owner(h) == handle[h].entry

\* is_discovery: False only for the partial() submitted on the direct-host path
IsDiscovery(h) == handle[h].mode # "direct"

\* async_setup_entry after get_device returned the Device Handle, up to the
\* first await: with a host the executor job setup_entry(host,
\* is_discovery=False) is submitted; without one the Discovery Service is
\* created and published if DATA_DISCOVERY is None (the coroutine then awaits
\* async_get_instance), else register_device is submitted to the executor.
SetupEntrySteps(e, host, t) ==
    /\ FreeHandle(Sweep(e)) # {}
    /\ LET h == NewHandle(Sweep(e))
           new == [InitHandle EXCEPT !.entry = e, !.type = t]
           run == [InitEntry EXCEPT !.state = "setup_in_progress", !.cur = h]
       IN  IF host
           THEN /\ handle' = [Sweep(e) EXCEPT ![h] = [new EXCEPT !.pc = "job_connect", !.mode = "direct",
                                                                  !.thread = ExecutorJob]]
                /\ entry' = [entry EXCEPT ![e] = [run EXCEPT !.pc = "await_job"]]
                /\ UNCHANGED discovery
           ELSE IF DiscoveryMissing
           THEN /\ discovery' = discovery + 1
                /\ handle' = [Sweep(e) EXCEPT ![h] = [new EXCEPT !.pc = "constructed", !.mode = "discovery"]]
                /\ entry' = [entry EXCEPT ![e] = [run EXCEPT !.pc = "await_zeroconf"]]
           ELSE /\ handle' = [Sweep(e) EXCEPT ![h] = [new EXCEPT !.pc = "job_register", !.mode = "discovery",
                                                                  !.thread = ExecutorJob]]
                /\ entry' = [entry EXCEPT ![e] = [run EXCEPT !.pc = "await_job"]]
                /\ UNCHANGED discovery

\* Mutant of AsyncSetupEntry: get_device is called after the Discovery
\* Service block instead of first.
AsyncSetupEntryFactoryLast(e, host, t, ok) ==
    /\ entry[e].state \in {"not_loaded", "setup_retry"}
    /\ entry[e].pc = "idle"
    /\ LoopFree
    /\ IF ~ok
       THEN /\ entry' = [entry EXCEPT ![e] = [InitEntry EXCEPT !.state = "setup_error", !.result = "error"]]
            /\ handle' = Sweep(e)
            /\ discovery' = IF ~host /\ DiscoveryMissing THEN discovery + 1 ELSE discovery
       ELSE SetupEntrySteps(e, host, t)
    /\ UNCHANGED <<devices, startCalls, stopHooks, registered, bridgeVars>>

\* async_setup_entry, from its call to its first await.  get_device either
\* raises (ok = FALSE), which ends the setup, or returns the Device Handle.
AsyncSetupEntry(e, host, t, ok) ==
    /\ entry[e].state \in {"not_loaded", "setup_retry"}
    /\ entry[e].pc = "idle"
    /\ LoopFree
    /\ IF ~ok
       THEN /\ entry' = [entry EXCEPT ![e] = [InitEntry EXCEPT !.state = "setup_error", !.result = "error"]]
            /\ handle' = Sweep(e)
            /\ UNCHANGED discovery
       ELSE SetupEntrySteps(e, host, t)
    /\ UNCHANGED <<devices, startCalls, stopHooks, registered, bridgeVars>>

\* async_setup_entry resumed after `await async_get_instance(hass)`:
\* start_discovery, the stop listener, and register_device submitted.
StartDiscovery(e) ==
    /\ entry[e].pc = "await_zeroconf"
    /\ LoopFree
    /\ startCalls' = startCalls + 1
    /\ stopHooks' = stopHooks + 1
    /\ handle' = [handle EXCEPT ![entry[e].cur].pc = "job_register",
                                ![entry[e].cur].thread = ExecutorJob]
    /\ entry' = [entry EXCEPT ![e].pc = "await_job"]
    /\ UNCHANGED <<devices, discovery, registered, bridgeVars>>

\* The executor job discovery.register_device(device, setup_entry).  The
\* Discovery Service either already knows the device's address and invokes
\* the callback at once, on this executor thread (found), or keeps the pair
\* pending until the device announces itself.
RegisterDevice(h, found) ==
    /\ handle[h].pc = "job_register"
    /\ IF found
       THEN /\ handle' = [handle EXCEPT ![h].pc = "connect", ![h].mode = "inline",
                                        ![h].calls = @ \cup {<<"register", handle[h].thread>>}]
            /\ UNCHANGED registered
       ELSE /\ handle' = [handle EXCEPT ![h].pc = "pending", ![h].mode = "announce",
                                        ![h].thread = "none",
                                        ![h].calls = @ \cup {<<"register", handle[h].thread>>}]
            /\ registered' = registered \cup {h}
    /\ UNCHANGED <<devices, discovery, startCalls, stopHooks, entry, bridgeVars>>

\* The Discovery Service sees the device announce itself and invokes the
\* registered callback setup_entry(host) on its own thread; the pending
\* registration is consumed.
DeviceDiscovered(h) ==
    /\ h \in registered
    /\ handle[h].pc = "pending"
    /\ registered' = registered \ {h}
    /\ handle' = [handle EXCEPT ![h].pc = "connect", ![h].thread = "discovery"]
    /\ UNCHANGED <<devices, discovery, startCalls, stopHooks, entry, bridgeVars>>

\* Mutant of Connect: the DysonException is logged and swallowed on both paths.
ConnectSwallowsError(h, ok) ==
    /\ handle[h].pc \in {"job_connect", "connect"}
    /\ handle' = [handle EXCEPT ![h].connects = @ + 1, ![h].connected = ok,
                                ![h].calls = @ \cup {<<"connect", handle[h].thread>>},
                                ![h].pc = IF ok THEN "connected" ELSE "failed"]
    /\ UNCHANGED <<devices, discovery, startCalls, stopHooks, registered, entry, bridgeVars>>

\* Mutant of Connect: ConfigEntryNotReady is raised on both paths.
ConnectAlwaysRaises(h, ok) ==
    /\ handle[h].pc \in {"job_connect", "connect"}
    /\ handle' = [handle EXCEPT ![h].connects = @ + 1, ![h].connected = ok,
                                ![h].calls = @ \cup {<<"connect", handle[h].thread>>},
                                ![h].pc = IF ok THEN "connected" ELSE "not_ready"]
    /\ UNCHANGED <<devices, discovery, startCalls, stopHooks, registered, entry, bridgeVars>>

\* Mutant of Connect: the `return` after the error log is missing, so a
\* failed discovery-driven connect falls through to the store.
ConnectFallsThrough(h, ok) ==
    /\ handle[h].pc \in {"job_connect", "connect"}
    /\ handle' = [handle EXCEPT ![h].connects = @ + 1, ![h].connected = ok,
                                ![h].calls = @ \cup {<<"connect", handle[h].thread>>},
                                ![h].pc = IF ok \/ IsDiscovery(h) THEN "connected" ELSE "not_ready"]
    /\ UNCHANGED <<devices, discovery, startCalls, stopHooks, registered, entry, bridgeVars>>

\* setup_entry, the try block: device.connect(host) returns (ok) or raises
\* DysonException; on the exception the discovery path logs and returns,
\* the direct path raises ConfigEntryNotReady.
Connect(h, ok) ==
    /\ handle[h].pc \in {"job_connect", "connect"}
    /\ handle' = [handle EXCEPT ![h].connects = @ + 1, ![h].connected = ok,
                                ![h].calls = @ \cup {<<"connect", handle[h].thread>>},
                                ![h].pc = IF ok THEN "connected"
                                          ELSE IF IsDiscovery(h) THEN "failed"
                                          ELSE "not_ready"]
    /\ UNCHANGED <<devices, discovery, startCalls, stopHooks, registered, entry, bridgeVars>>

\* Mutant of StoreDevice: the store happens on the direct path only.
StoreDeviceDirectOnly(h) ==
    /\ handle[h].pc = "connected"
    /\ devices' = IF handle[h].mode = "direct" THEN DictSet(devices, handle[h].entry, h) ELSE devices
    /\ handle' = [handle EXCEPT ![h].pc = "wait_forward"]
    /\ UNCHANGED <<discovery, startCalls, stopHooks, registered, entry, bridgeVars>>

\* setup_entry after the try block: the store into hass.data, then
\* run_coroutine_threadsafe(...), on whose .result() the thread blocks.
StoreDevice(h) ==
    /\ handle[h].pc = "connected"
    /\ devices' = DictSet(devices, Owner(h), h)
    /\ handle' = [handle EXCEPT ![h].pc = "wait_forward"]
    /\ UNCHANGED <<discovery, startCalls, stopHooks, registered, entry, bridgeVars>>

\* Mutant of AsyncForwardEntrySetup: the loop stops after the first platform.
AsyncForwardEntrySetupFirstOnly(h) ==
    /\ handle[h].pc = "wait_forward"
    /\ LoopFree
    /\ handle' = [handle EXCEPT ![h].forwarded = @ \o <<GetPlatform(handle[h].type)[1]>>,
                                ![h].pc = "done"]
    /\ UNCHANGED <<devices, discovery, startCalls, stopHooks, registered, entry, bridgeVars>>

\* _async_forward_entry_setup run by the event loop: one task per platform of
\* the device; its completion releases .result() and setup_entry returns.
AsyncForwardEntrySetup(h) ==
    /\ handle[h].pc = "wait_forward"
    /\ LoopFree
    /\ handle' = [handle EXCEPT ![h].forwarded = @ \o GetPlatform(handle[h].type),
                                ![h].pc = "done"]
    /\ UNCHANGED <<devices, discovery, startCalls, stopHooks, registered, entry, bridgeVars>>

\* The executor job async_setup_entry awaits has finished: setup_entry on
\* the direct path, register_device (with the callback it may have run) on
\* the discovery path.
JobFinished(h) ==
    \/ handle[h].mode \in {"direct", "inline"} /\ handle[h].pc \in {"done", "failed", "not_ready"}
    \/ handle[h].mode = "announce"

\* async_setup_entry resumed after `await hass.async_add_executor_job(...)`:
\* the job's exception propagates (ConfigEntryNotReady, the host platform
\* will retry), otherwise return True.
SetupEntryReturn(e) ==
    /\ entry[e].state = "setup_in_progress"
    /\ entry[e].pc = "await_job"
    /\ LoopFree
    /\ JobFinished(entry[e].cur)
    /\ IF handle[entry[e].cur].pc = "not_ready"
       THEN entry' = [entry EXCEPT ![e].state = "setup_retry", ![e].pc = "idle", ![e].result = "not_ready"]
       ELSE entry' = [entry EXCEPT ![e].state = "loaded", ![e].pc = "idle", ![e].result = "setup_true"]
    /\ UNCHANGED <<devices, discovery, startCalls, stopHooks, registered, handle, bridgeVars>>

\* async_unload_entry, from its call to `await asyncio.gather(...)`: the
\* lookup of the device (KeyError when the entry has none) and one
\* async_forward_entry_unload per platform of the device.
AsyncUnloadEntry(e) ==
    /\ entry[e].state = "loaded"
    /\ entry[e].pc = "idle"
    /\ LoopFree
    /\ IF DictHas(devices, e)
       THEN entry' = [entry EXCEPT ![e] = [InitEntry EXCEPT
                                   !.state = "loaded", !.pc = "await_unloads",
                                   !.cur = DictGet(devices, e),
                                   !.platforms = GetPlatform(handle[DictGet(devices, e)].type)]]
       ELSE entry' = [entry EXCEPT ![e] = [InitEntry EXCEPT
                                   !.state = "failed_unload", !.result = "key_error"]]
    /\ handle' = Sweep(e)
    /\ UNCHANGED <<devices, discovery, startCalls, stopHooks, registered, bridgeVars>>

\* Mutant of UnloadGathered: the device is not popped before the disconnect.
UnloadGatheredKeepsDevice(e, results) ==
    /\ entry[e].pc = "await_unloads"
    /\ LoopFree
    /\ Len(results) = Len(entry[e].platforms)
    /\ IF All(results)
       THEN entry' = [entry EXCEPT ![e].pc = "await_disconnect", ![e].unloads = results]
       ELSE entry' = [entry EXCEPT ![e].pc = "idle", ![e].result = "unload_false",
                                   ![e].unloads = results]
    /\ UNCHANGED <<devices, discovery, startCalls, stopHooks, registered, handle, bridgeVars>>

\* async_unload_entry resumed with the gathered results: ok = all(results);
\* if ok the device is popped and device.disconnect is submitted to the
\* executor, else the coroutine returns False and the entry stays loaded.
UnloadGathered(e, results) ==
    /\ entry[e].pc = "await_unloads"
    /\ LoopFree
    /\ Len(results) = Len(entry[e].platforms)
    /\ IF All(results)
       THEN IF DictHas(devices, e)
            THEN /\ devices' = DictPop(devices, e)
                 /\ entry' = [entry EXCEPT ![e].pc = "await_disconnect", ![e].unloads = results]
            ELSE /\ entry' = [entry EXCEPT ![e].state = "failed_unload", ![e].pc = "idle",
                                            ![e].result = "key_error", ![e].unloads = results]
                 /\ UNCHANGED devices
       ELSE /\ entry' = [entry EXCEPT ![e].pc = "idle", ![e].result = "unload_false",
                                       ![e].unloads = results]
            /\ UNCHANGED devices
    /\ UNCHANGED <<discovery, startCalls, stopHooks, registered, handle, bridgeVars>>

\* The executor job device.disconnect.
Disconnect(e) ==
    /\ entry[e].pc = "await_disconnect"
    /\ handle' = [handle EXCEPT ![entry[e].cur].disconnects = @ + 1,
                                ![entry[e].cur].calls = @ \cup {<<"disconnect", ExecutorJob>>}]
    /\ entry' = [entry EXCEPT ![e].pc = "disconnected"]
    /\ UNCHANGED <<devices, discovery, startCalls, stopHooks, registered, bridgeVars>>

\* async_unload_entry resumed after the disconnect job: return ok (True).
UnloadEntryReturn(e) ==
    /\ entry[e].pc = "disconnected"
    /\ LoopFree
    /\ entry' = [entry EXCEPT ![e].state = "not_loaded", ![e].pc = "idle", ![e].result = "unload_true"]
    /\ UNCHANGED <<devices, discovery, startCalls, stopHooks, registered, handle, bridgeVars>>

\* ------------------------------------------------------------- Entity Bridge
\* Mutant of NewEntity: the constructor already subscribes to the device.
NewEntitySubscribes(b, f) ==
    /\ ~bridge[b].made
    /\ bridge' = [bridge EXCEPT ![b].made = TRUE, ![b].filter = f, ![b].listeners = @ + 1]
    /\ UNCHANGED lifecycleVars

\* DysonEntity.__init__ of a subclass whose _MESSAGE_TYPE is f (None in the
\* base class).
NewEntity(b, f) ==
    /\ ~bridge[b].made
    /\ bridge' = [bridge EXCEPT ![b].made = TRUE, ![b].filter = f]
    /\ UNCHANGED lifecycleVars

\* async_added_to_hass, called by the host platform once per entity.
AsyncAddedToHass(b) ==
    /\ bridge[b].made
    /\ ~bridge[b].added
    /\ bridge' = [bridge EXCEPT ![b].added = TRUE, ![b].listeners = @ + 1]
    /\ UNCHANGED lifecycleVars

\* Mutant of OnMessage: the _MESSAGE_TYPE filter is ignored.
OnMessageUnfiltered(b, m) ==
    /\ bridge[b].listeners > 0
    /\ bridge' = [bridge EXCEPT ![b].received[m] = @ + 1, ![b].refreshes = @ + 1]
    /\ UNCHANGED lifecycleVars

\* _on_message(message_type), called by the device for a listener it holds.
OnMessage(b, m) ==
    /\ bridge[b].listeners > 0
    /\ bridge' = [bridge EXCEPT ![b].received[m] = @ + 1,
                                ![b].refreshes =
                                    IF bridge[b].filter = NoFilter \/ m = bridge[b].filter
                                    THEN @ + 1 ELSE @]
    /\ UNCHANGED lifecycleVars

TotalReceived(b) == bridge[b].received["STATE"] + bridge[b].received["ENVIRONMENTAL"]

\* ------------------------------------------------------------ specifications
Next ==
    \/ \E e \in Entries, host \in BOOLEAN, t \in EntryTypes, ok \in BOOLEAN :
            AsyncSetupEntry(e, host, t, ok)
    \/ \E e \in Entries : StartDiscovery(e)
    \/ \E h \in Handles, found \in BOOLEAN : RegisterDevice(h, found)
    \/ \E h \in Handles : DeviceDiscovered(h)
    \/ \E h \in Handles, ok \in BOOLEAN : Connect(h, ok)
    \/ \E h \in Handles : StoreDevice(h)
    \/ \E h \in Handles : AsyncForwardEntrySetup(h)
    \/ \E e \in Entries : SetupEntryReturn(e)
    \/ \E e \in Entries : AsyncUnloadEntry(e)
    \/ \E e \in Entries, n \in 2..3 : \E results \in [1..n -> BOOLEAN] : UnloadGathered(e, results)
    \/ \E e \in Entries : Disconnect(e)
    \/ \E e \in Entries : UnloadEntryReturn(e)

Spec == Init /\ [][Next]_vars

NextBridge ==
    \/ \E b \in Bridges, f \in MessageTypes \cup {NoFilter} : NewEntity(b, f)
    \/ \E b \in Bridges : AsyncAddedToHass(b)
    \/ \E b \in Bridges, m \in MessageTypes : TotalReceived(b) < MaxMsgs /\ OnMessage(b, m)

SpecBridge == Init /\ [][NextBridge]_vars

\* -------------------------------------------------------------------- claims
Range(q) == {q[i] : i \in 1..Len(q)}

\* The categories the Platform Selector is specified to return.
ExpectedPlatforms(t) ==
    IF t = "N223" THEN {"binary_sensor", "sensor", "vacuum"} ELSE {"fan", "sensor"}

\* h's handler issued one forward per specified category, none missing, none extra.
IssuedExactly(h) ==
    /\ Range(handle[h].forwarded) = ExpectedPlatforms(handle[h].type)
    /\ Len(handle[h].forwarded) = Cardinality(ExpectedPlatforms(handle[h].type))

Stored(h) == <<handle[h].entry, h>> \in devices

ModeOfCur(e) == IF entry[e].cur = NoHandle THEN "none" ELSE handle[entry[e].cur].mode

\* C1: when setup of an entry with a host returns success, hass.data maps the
\* entry id to the Device Handle of that setup, and exactly one forward has
\* been issued for each category the Platform Selector gives for its type.
C1_DirectSetupSuccess ==
    \A e \in Entries :
        (entry[e].result = "setup_true" /\ ModeOfCur(e) = "direct") =>
            /\ DictHas(devices, e)
            /\ DictGet(devices, e) = entry[e].cur
            /\ handle[entry[e].cur].connects = 1
            /\ IssuedExactly(entry[e].cur)

C1_Witness ==
    \E e \in Entries :
        /\ entry[e].result = "setup_true" /\ ModeOfCur(e) = "direct"
        /\ handle[entry[e].cur].type = "N223"
        /\ Len(handle[entry[e].cur].forwarded) = 3

\* C2: when connect raises on the direct-host path, setup ends with the
\* "not ready" signal (never with success), connect was attempted exactly
\* once, the entry has no Device Handle in hass.data and no forward was issued.
C2_DirectConnectFailure ==
    /\ \A h \in Handles :
          (handle[h].mode = "direct" /\ handle[h].connects > 0
              /\ handle[h].pc \notin {"connected", "wait_forward", "done"}) =>
            /\ handle[h].pc = "not_ready"
            /\ handle[h].connects = 1
            /\ ~Stored(h)
            /\ handle[h].forwarded = <<>>
    /\ \A e \in Entries :
          (ModeOfCur(e) = "direct" /\ handle[entry[e].cur].pc = "not_ready"
              /\ entry[e].pc = "idle") =>
            /\ entry[e].result = "not_ready"
            /\ entry[e].state = "setup_retry"
            /\ ~DictHas(devices, e)

C2_Witness ==
    \E e \in Entries :
        /\ entry[e].result = "not_ready"
        /\ handle[entry[e].cur].connects = 1
        /\ \E f \in Entries : f # e /\ DictHas(devices, f)

\* C3: an entry without a host never has connect called by setup itself: the
\* Device Handle goes through register_device and setup returns success;
\* when the registered callback then connects, the handle is stored under
\* the entry id and exactly one forward per category is issued.
C3_DiscoverySetup ==
    /\ [](\A h \in Handles :
            /\ handle[h].mode = "discovery" =>
                  (handle[h].connects = 0 /\ handle[h].pc \in {"constructed", "job_register"})
            /\ (handle[h].mode \in {"inline", "announce"} /\ handle[h].pc = "done") =>
                  IssuedExactly(h))
    /\ [](\A e \in Entries :
            (ModeOfCur(e) # "direct" /\ entry[e].state # "setup_in_progress"
                /\ entry[e].result \in {"setup_true", "not_ready"}) =>
              (entry[e].result = "setup_true" /\ ModeOfCur(e) \in {"inline", "announce"}))
    /\ [][\A h \in Handles :
            (handle[h].mode \in {"inline", "announce"} /\ handle[h].pc = "connected"
                /\ handle'[h].pc # "connected") =>
              (handle'[h].pc = "wait_forward" /\ <<handle[h].entry, h>> \in devices')]_vars

C3_Witness ==
    \E h \in Handles :
        /\ handle[h].mode = "announce" /\ handle[h].pc = "done"
        /\ Stored(h) /\ IssuedExactly(h)
        /\ entry[handle[h].entry].result = "setup_true"

\* C4: when unload is called and every platform unload succeeds, unload
\* returns True, the entry's Device Handle is gone from hass.data and
\* disconnect was invoked on it exactly once.
C4_UnloadSuccess ==
    \A e \in Entries :
        (/\ entry[e].unloads # <<>>
         /\ \A i \in 1..Len(entry[e].unloads) : entry[e].unloads[i]
         /\ entry[e].pc = "idle") =>
            /\ entry[e].result = "unload_true"
            /\ entry[e].state = "not_loaded"
            /\ ~DictHas(devices, e)
            /\ ~Stored(entry[e].cur)
            /\ handle[entry[e].cur].disconnects = 1

C4_Witness ==
    \E e \in Entries :
        /\ entry[e].result = "unload_true"
        /\ Len(entry[e].unloads) = 3
        /\ handle[entry[e].cur].disconnects = 1

\* C5: when at least one platform unload fails, unload returns False, the
\* Device Handle is still stored under the entry id, disconnect was not
\* invoked, and the entry stays loaded so that unload can be called again.
C5_UnloadFailure ==
    \A e \in Entries :
        (\E i \in 1..Len(entry[e].unloads) : ~entry[e].unloads[i]) =>
            /\ entry[e].result = "unload_false"
            /\ entry[e].pc = "idle"
            /\ entry[e].state = "loaded"
            /\ DictHas(devices, e)
            /\ DictGet(devices, e) = entry[e].cur
            /\ handle[entry[e].cur].disconnects = 0

C5_Witness ==
    \E e \in Entries :
        /\ entry[e].result = "unload_false"
        /\ \E i, j \in 1..Len(entry[e].unloads) : entry[e].unloads[i] /\ ~entry[e].unloads[j]

\* C6: the Platform Selector returns exactly binary_sensor, sensor, vacuum
\* for the 360 Eye and exactly fan, sensor for every other device type, and
\* the categories unloaded for a device are the categories forwarded for it.
C6_PlatformSelector ==
    /\ \A t \in DeviceTypes :
          /\ Range(GetPlatform(t)) = ExpectedPlatforms(t)
          /\ Len(GetPlatform(t)) = Cardinality(ExpectedPlatforms(t))
    /\ \A h \in Handles :
          handle[h].forwarded # <<>> => IssuedExactly(h)
    /\ \A e \in Entries :
          entry[e].platforms # <<>> =>
            /\ Range(entry[e].platforms) = ExpectedPlatforms(handle[entry[e].cur].type)
            /\ handle[entry[e].cur].forwarded # <<>> =>
                  entry[e].platforms = handle[entry[e].cur].forwarded

C6_Witness ==
    \E e, f \in Entries :
        /\ entry[e].platforms = <<"binary_sensor", "sensor", "vacuum">>
        /\ handle[entry[e].cur].forwarded = entry[e].platforms
        /\ entry[f].platforms = <<"fan", "sensor">>
        /\ handle[entry[f].cur].forwarded = entry[f].platforms

\* C7: a bridge without a filter has requested one refresh per message it
\* received; a bridge with a filter one refresh per received message of the
\* filter's type and none for any other message.
C7_BridgeRefresh ==
    \A b \in Bridges :
        bridge[b].refreshes =
            IF bridge[b].filter = NoFilter
            THEN TotalReceived(b)
            ELSE bridge[b].received[bridge[b].filter]

C7_Witness ==
    \E b, c \in Bridges :
        /\ bridge[b].filter = "STATE"
        /\ bridge[b].received["STATE"] = 1 /\ bridge[b].received["ENVIRONMENTAL"] = 2
        /\ bridge[b].refreshes = 1
        /\ bridge[c].filter = NoFilter /\ bridge[c].refreshes = 3

\* C8: when a discovery-driven connect raises, the handler returns normally
\* (setup does not end "not ready"), hass.data is unchanged, no forward is
\* issued, and the Discovery Service and its pending registrations are as
\* they were.
C8_DiscoveryConnectFailure ==
    /\ [](\A h \in Handles :
            (handle[h].mode \in {"inline", "announce"} /\ handle[h].pc \in {"failed", "not_ready"}) =>
              /\ handle[h].pc = "failed"
              /\ ~Stored(h)
              /\ handle[h].forwarded = <<>>)
    /\ [](\A e \in Entries :
            (ModeOfCur(e) = "inline" /\ entry[e].pc = "idle" /\ entry[e].state # "failed_unload") =>
              entry[e].result # "not_ready")
    /\ [][\A h \in Handles :
            (handle[h].pc = "connect" /\ handle'[h].pc \in {"failed", "not_ready"}) =>
              /\ devices' = devices
              /\ registered' = registered
              /\ discovery' = discovery /\ startCalls' = startCalls /\ stopHooks' = stopHooks
              /\ \A g \in Handles : handle'[g].forwarded = handle[g].forwarded]_vars

C8_Witness ==
    \E h, g \in Handles :
        /\ handle[h].mode = "announce" /\ handle[h].pc = "failed" /\ handle[h].connects = 1
        /\ g \in registered /\ handle[g].pc = "pending"
        /\ discovery # 0 /\ startCalls = 1

\* The items hass.data holds for entry e.
ItemsOf(d, e) == {p \in d : p[1] = e}

\* C9: hass.data holds at most one Device Handle per entry id, and a step
\* changes the item of an entry only if it is a step of that entry's own
\* setup, connect handler or unload.
C9_OneHandlePerEntry ==
    /\ [](\A p, q \in devices : p[1] = q[1] => p = q)
    /\ [][\A e \in Entries :
            ItemsOf(devices', e) # ItemsOf(devices, e) =>
              \/ entry'[e] # entry[e]
              \/ \E h \in Handles : handle[h].entry = e /\ handle'[h] # handle[h]]_vars

C9_Witness ==
    \E e, f \in Entries :
        /\ e # f
        /\ DictHas(devices, e) /\ entry[e].result = "setup_true"
        /\ entry[f].pc = "await_disconnect" /\ ~DictHas(devices, f)

\* C10: a forward for an entry is only ever issued in a state in which
\* hass.data holds a Device Handle under the entry id.
C10_ForwardOnlyWhileStored ==
    [][\A h \in Handles :
        (handle[h].pc = "wait_forward" /\ Len(handle'[h].forwarded) > Len(handle[h].forwarded)) =>
            DictHas(devices, handle[h].entry)]_vars

\* C11: the Discovery Service is created only by a setup without a host,
\* and however many such setups run or interleave, at most one instance is
\* ever created, start_discovery is called once on it and one stop listener
\* is registered, both by the setup that created it.
C11_LazySingleton ==
    /\ [](/\ discovery <= 1 /\ startCalls <= 1 /\ stopHooks = startCalls
          /\ startCalls = 1 => discovery = 1
          /\ (discovery = 1 /\ \A e \in Entries : entry[e].pc # "await_zeroconf") => startCalls = 1
          /\ discovery = 0 => \A h \in Handles : handle[h].mode \in {"none", "direct"})
    /\ [][discovery' # discovery =>
            /\ discovery = 0
            /\ \E e \in Entries :
                  /\ entry[e].pc = "idle" /\ entry'[e].pc = "await_zeroconf"
                  /\ handle'[entry'[e].cur].mode = "discovery"]_vars

C11_Witness ==
    /\ discovery = 1 /\ startCalls = 1 /\ stopHooks = 1
    /\ \A e \in Entries :
          /\ entry[e].result = "setup_true"
          /\ handle[entry[e].cur].mode \in {"inline", "announce"}

\* C12: connect, disconnect and register_device are never called on the
\* event loop's thread: register_device and disconnect run on an executor
\* thread, connect on an executor thread or on the discovery thread.
C12_BlockingCallsOffLoop ==
    \A h \in Handles :
        /\ \A c \in handle[h].calls :
              /\ c[2] \in {"executor", "discovery"}
              /\ c[1] \in {"register", "disconnect"} => c[2] = "executor"
              /\ (c[1] = "connect" /\ handle[h].mode \in {"direct", "inline"}) => c[2] = "executor"
        /\ handle[h].connects > 0 => \E c \in handle[h].calls : c[1] = "connect"
        /\ handle[h].disconnects > 0 => \E c \in handle[h].calls : c[1] = "disconnect"
        /\ handle[h].mode \in {"inline", "announce"} => \E c \in handle[h].calls : c[1] = "register"

C12_Witness ==
    \E h, g \in Handles :
        /\ handle[h].calls = {<<"register", "executor">>, <<"connect", "discovery">>,
                               <<"disconnect", "executor">>}
        /\ handle[g].calls = {<<"connect", "executor">>}

\* C13: when get_device raises, the setup ends at once as an error: no
\* Device Handle exists for it, so nothing is connected, registered or
\* forwarded, no Discovery Service is created, and hass.data is unchanged.
C13_FactoryFailure ==
    /\ [](\A e \in Entries :
            entry[e].state = "setup_error" =>
              (entry[e].result = "error" /\ entry[e].pc = "idle" /\ entry[e].cur = NoHandle))
    /\ [][\A e \in Entries :
            (entry[e].state # "setup_error" /\ entry'[e].state = "setup_error") =>
              /\ devices' = devices
              /\ discovery' = discovery /\ startCalls' = startCalls /\ stopHooks' = stopHooks
              /\ registered' = registered
              /\ \A h \in Handles : handle'[h] = handle[h] \/ handle'[h] = InitHandle]_vars

C13_Witness ==
    \E e, f \in Entries :
        /\ entry[e].state = "setup_error"
        /\ discovery = 0
        /\ DictHas(devices, f) /\ handle[DictGet(devices, f)].pc = "done"

\* C14: a bridge holds no subscription and has requested no refresh before
\* the host platform signals that the entity was added, holds exactly one
\* subscription after it, and once attached stays attached.
C14_AttachOnce ==
    /\ [](\A b \in Bridges :
            /\ ~bridge[b].added =>
                  (bridge[b].listeners = 0 /\ bridge[b].refreshes = 0 /\ TotalReceived(b) = 0)
            /\ bridge[b].added => (bridge[b].made /\ bridge[b].listeners = 1))
    /\ [][\A b \in Bridges :
            /\ bridge[b].added => bridge'[b].added
            /\ bridge'[b].listeners >= bridge[b].listeners]_vars

C14_Witness ==
    \E b, c \in Bridges :
        /\ bridge[b].added /\ bridge[b].listeners = 1 /\ bridge[b].refreshes = 2
        /\ bridge[c].made /\ ~bridge[c].added

\* C16: every entry whose setup returned success and that has not been
\* unloaded since has its Device Handle in hass.data, so that unload finds
\* it and returns True or False instead of raising.
C16_UnloadFindsDevice ==
    \A e \in Entries :
        /\ (entry[e].state = "loaded" /\ entry[e].pc = "idle") => DictHas(devices, e)
        /\ entry[e].result # "key_error"

\* C17: from the moment unload of an entry has returned True until setup is
\* called again for it, no forward is issued for the entry and no Device
\* Handle is stored under its id.
C17_QuietAfterUnload ==
    [][\A h \in Handles :
        (handle[h].entry # 0 /\ entry[handle[h].entry].result = "unload_true"
            /\ entry'[handle[h].entry].result = "unload_true") =>
          /\ Len(handle'[h].forwarded) <= Len(handle[h].forwarded)
          /\ ~DictHas(devices', handle[h].entry)]_vars

\* C18: a connect handler never waits on the event loop while the event
\* loop waits on it: the handler always runs on an executor or discovery
\* thread, each of its steps can be taken, and whenever it is blocked on the
\* forwarding it marshalled, the event loop is free to run that forwarding.
C18_HandlerCanFinish ==
    \A h \in Handles :
        /\ handle[h].pc \in {"job_connect", "connect", "connected", "wait_forward"} =>
              handle[h].thread \in {"executor", "discovery"}
        /\ handle[h].pc \in {"job_connect", "connect"} => ENABLED Connect(h, TRUE)
        /\ handle[h].pc = "connected" => ENABLED StoreDevice(h)
        /\ handle[h].pc = "wait_forward" => (LoopFree /\ ENABLED AsyncForwardEntrySetup(h))

C18_Witness ==
    \E h, g \in Handles :
        /\ handle[h].pc = "wait_forward" /\ handle[h].mode = "direct"
        /\ entry[handle[h].entry].pc = "await_job"
        /\ handle[g].pc = "wait_forward" /\ handle[g].mode = "announce"

\* C19: every Device Handle in hass.data is stored under its own entry,
\* has completed a successful connect and has not been disconnected; a
\* disconnected handle is no longer in hass.data.
C19_StoredMeansConnected ==
    /\ \A p \in devices :
          /\ handle[p[2]].entry = p[1]
          /\ handle[p[2]].connected
          /\ handle[p[2]].connects = 1
          /\ handle[p[2]].disconnects = 0
    /\ \A h \in Handles :
          /\ handle[h].disconnects > 0 => (~Stored(h) /\ handle[h].connected)
          /\ handle[h].pc \in {"failed", "not_ready"} => ~Stored(h)

C19_Witness ==
    \E h, g \in Handles :
        /\ Stored(h) /\ handle[h].pc = "done" /\ handle[h].connected
        /\ handle[g].disconnects = 1 /\ ~Stored(g)

\* C20: register_device is only called on a Discovery Service on which
\* start_discovery has been called.
C20_RegisteredAfterStart ==
    [][\A h \in Handles :
        (handle[h].pc = "job_register" /\ handle'[h].pc # "job_register") =>
          startCalls >= 1]_vars

====
